---- MODULE Spec2Model ----
(***************************************************************************)
(* Model of src/agent.py: the LangChainAgent conversation loop.            *)
(*                                                                         *)
(* The process is sequential.  It blocks in three places: the connection   *)
(* probe llm.invoke("Hello") in __init__, input() in chat(), and           *)
(* conversation.predict() in think().  One action models everything the    *)
(* program does between two blocking calls, handlers included.             *)
(*                                                                         *)
(* Text is a sequence of one-character strings, so that str.strip() and    *)
(* str.lower() are computed.  Console markup is a sequence of tokens       *)
(* (text, opening tag, closing tag), so that the markup renderer of        *)
(* Console.print is computed, including the MarkupError it raises.         *)
(***************************************************************************)
EXTENDS Integers, Sequences, FiniteSets, TLC

VARIABLES
    pc,               \* where the process is: "main", "probe", "input", "predict", "exited"
    chat,             \* chat(): "not_run", "running", or how the loop ended: "break", "interrupt", "error"
    exit_code,        \* -1 while running; 0 when main() returned; 1 when an exception was never caught
    prompt_template,  \* self.prompt_template: the seeded instruction text (<<>> before construction)
    memory,           \* self.memory: the messages of the ConversationBufferMemory, in order
    console,          \* what has been printed, in order
    user_input,       \* chat(): the last line read
    processed_input,  \* chat(): the last result of perceive()
    calls,            \* the calls made to conversation.predict, with what each was given and how it ended
    event,            \* what the last blocking call returned or raised
    lines_read        \* how many lines input() has returned

vars == <<pc, chat, exit_code, prompt_template, memory, console,
          user_input, processed_input, calls, event, lines_read>>

----------------------------------------------------------------------------
(* Bounds *)

MaxLines == 3

----------------------------------------------------------------------------
(* Text *)

UpperChars == <<"A","B","C","D","E","F","G","H","I","J","K","L","M",
                "N","O","P","Q","R","S","T","U","V","W","X","Y","Z">>
LowerChars == <<"a","b","c","d","e","f","g","h","i","j","k","l","m",
                "n","o","p","q","r","s","t","u","v","w","x","y","z">>

Whitespace == {" ", "\t", "\n"}

\* str.lower(), one character
LowerChar(c) ==
    IF \E i \in 1..26 : UpperChars[i] = c
    THEN LowerChars[CHOOSE i \in 1..26 : UpperChars[i] = c]
    ELSE c

\* str.lower()
Lower(s) == [i \in 1..Len(s) |-> LowerChar(s[i])]

SetMin(S) == CHOOSE x \in S : \A y \in S : x <= y
SetMax(S) == CHOOSE x \in S : \A y \in S : x >= y

\* str.strip(): drops the leading and trailing whitespace
Strip(s) ==
    LET keep == {i \in 1..Len(s) : s[i] \notin Whitespace}
    IN  IF keep = {} THEN <<>> ELSE SubSeq(s, SetMin(keep), SetMax(keep))

\* chat(): the list the lowered input is looked up in
ExitKeywords ==
    { <<"q","u","i","t">>, <<"e","x","i","t">>, <<"b","y","e">>,
      <<"g","o","o","d","b","y","e">> }

\* think(): the reply returned when predict raised
Fallback ==
    <<"I","'","m"," ","h","a","v","i","n","g"," ","t","r","o","u","b","l","e"," ",
      "p","r","o","c","e","s","s","i","n","g"," ","t","h","a","t"," ",
      "r","i","g","h","t"," ","n","o","w","."," ",
      "C","o","u","l","d"," ","y","o","u"," ","t","r","y"," ",
      "r","e","p","h","r","a","s","i","n","g","?">>

\* main(): the name the agent is created with
AgentName == <<"L","o","c","a","l","B","o","t">>

\* __init__: the instruction text, which embeds the agent's name
PromptText(name) == <<"Y","o","u"," ","a","r","e"," ">> \o name

----------------------------------------------------------------------------
(* The lines typed and the replies of the model *)

InputLines ==
    { <<>>,
      <<" "," ">>,
      <<"q","u","i","t">>,
      <<"Q","U","I","T">>,
      <<"E","x","i","t">>,
      <<" ","b","y","e"," ">>,
      <<"H","e","l","l","o">>,
      <<"q","u","i","t"," ","n","o","w">> }

Echo(s) == <<"e","c","h","o",":">> \o s

Replies(s) == { Echo(s), <<" ","o","k","\n">> }

----------------------------------------------------------------------------
(* Console markup and exceptions *)

Txt      == [k |-> "text",  s |-> ""]
Open(s)  == [k |-> "open",  s |-> s]
Close(s) == [k |-> "close", s |-> s]

NoExc             == [type |-> "none", msg |-> <<>>]
KeyboardInterrupt == [type |-> "KeyboardInterrupt", msg |-> <<>>]
EOFError          == [type |-> "EOFError", msg |-> <<Txt>>]

\* the error of the renderer; its message quotes the tag that could not be closed
MarkupError(tag) == [type |-> "MarkupError", msg |-> <<Txt, tag, Txt>>]

\* what the model backend can raise: a plain message, and one that itself
\* holds an opening [red] tag
BackendErrors ==
    { [type |-> "Exception", msg |-> <<Txt>>],
      [type |-> "Exception", msg |-> <<Open("red"), Txt>>] }

\* `except Exception` catches e
IsException(e) == e.type \in {"Exception", "MarkupError", "EOFError"}

RemoveAt(s, j) == SubSeq(s, 1, j - 1) \o SubSeq(s, j + 1, Len(s))

RECURSIVE RenderFrom(_, _, _)
RenderFrom(markup, i, stack) ==
    IF i > Len(markup) THEN NoExc
    ELSE LET tok == markup[i]
         IN  IF tok.k = "text" THEN RenderFrom(markup, i + 1, stack)
             ELSE IF tok.k = "open" THEN RenderFrom(markup, i + 1, Append(stack, tok.s))
             ELSE LET open == {j \in 1..Len(stack) : stack[j] = tok.s}
                  IN  IF open = {} THEN MarkupError(tok)
                      ELSE RenderFrom(markup, i + 1, RemoveAt(stack, SetMax(open)))

\* Console.print of a string with markup: NoExc, or the MarkupError raised.
\* A closing tag must match an open tag; tags left open are accepted.
Render(markup) == RenderFrom(markup, 1, <<>>)

Out(site, text) == [site |-> site, text |-> text]

----------------------------------------------------------------------------
(* The exception handlers *)

\* main(), `except Exception`: what is printed and the exit code of the
\* process.  An exception raised by the handler's own print, or one the
\* clause does not catch, is never caught: the interpreter exits with 1.
MainExcept(con, e) ==
    IF IsException(e)
       /\ Render(<<Open("red"), Txt>> \o e.msg \o <<Close("red")>>) = NoExc
    THEN [console   |-> con \o <<Out("failed_to_start", <<>>), Out("failed_hint", <<>>)>>,
          exit_code |-> 0]
    ELSE [console |-> con, exit_code |-> 1]

\* chat(), the two except clauses around the while loop: what is printed,
\* how the loop ended, and the exception that leaves chat() (NoExc if none)
ChatExcept(con, e) ==
    IF e.type = "KeyboardInterrupt"
    THEN [console |-> Append(con, Out("interrupted", <<>>)),
          chat |-> "interrupt", exc |-> NoExc]
    ELSE LET r == Render(<<Txt, Open("red"), Txt>> \o e.msg \o <<Close("red")>>)
         IN  IF r = NoExc
             THEN [console |-> Append(con, Out("unexpected_error", <<>>)),
                   chat |-> "error", exc |-> NoExc]
             ELSE [console |-> con, chat |-> "error", exc |-> r]

\* think() with a bare `except:`, which also catches the interrupt signal
ThinkCatchesAll(e) == TRUE

\* think(), `except Exception as e`
ThinkCatches(e) == IsException(e)

\* think(), the except clause: what is printed, the reply returned, and the
\* exception that leaves think() (NoExc if it returns)
ThinkExcept(con, e) ==
    IF ~ThinkCatches(e)
    THEN [console |-> con, response |-> <<>>, exc |-> e]
    ELSE LET r == Render(<<Txt>> \o e.msg \o <<Txt, Close("red")>>)
         IN  IF r = NoExc
             THEN [console |-> Append(con, Out("think_error", <<>>)),
                   response |-> Fallback, exc |-> NoExc]
             ELSE [console |-> con, response |-> <<>>, exc |-> r]

\* An exception e leaves the while loop of chat(): chat()'s handlers run,
\* then main() returns or handles what chat() raised.
LeaveLoop(con, e) ==
    LET c == ChatExcept(con, e)
    IN  IF c.exc = NoExc
        THEN [console |-> c.console, chat |-> c.chat, exit_code |-> 0]
        ELSE LET m == MainExcept(c.console, c.exc)
             IN  [console |-> m.console, chat |-> c.chat, exit_code |-> m.exit_code]

----------------------------------------------------------------------------
(* The conversation chain *)

Message(role, content) == [role |-> role, content |-> content]

\* save_context that records the reply without the input
SaveContextReplyOnly(mem, input, output) ==
    Append(mem, [role |-> "assistant", content |-> output])

\* save_context that records the input under the role of the instruction turn
SaveContextAsSystem(mem, input, output) ==
    mem \o <<[role |-> "system", content |-> input],
             [role |-> "assistant", content |-> output]>>

\* save_context that keeps only the latest exchange
SaveContextOverwrite(mem, input, output) ==
    <<[role |-> "user", content |-> input],
      [role |-> "assistant", content |-> output]>>

\* save_context that records the reply before the input
SaveContextSwapped(mem, input, output) ==
    mem \o <<[role |-> "assistant", content |-> output],
             [role |-> "user", content |-> input]>>

\* ConversationBufferMemory.save_context, run by predict once the model has
\* replied: records the input and the reply, in that order
SaveContext(mem, input, output) ==
    mem \o <<Message("user", input), Message("assistant", output)>>

\* perceive() that forgets to strip
perceiveNoStrip(line) == line

\* perceive()
perceive(line) ==
    LET processed == Strip(line)
    IN  IF processed = <<>> THEN <<>> ELSE processed

\* an exit test that looks for a keyword at the start of the line
IsExitCommandPrefix(line) ==
    \E n \in 1..Len(line) : Lower(SubSeq(line, 1, n)) \in ExitKeywords

\* chat(): the exit test, made on the line as read
IsExitCommand(line) == Lower(line) \in ExitKeywords

\* The turn history the model is given: the instruction text, then the
\* messages of the memory
TurnStore == <<Message("system", prompt_template)>> \o memory

----------------------------------------------------------------------------
(* The process *)

Init ==
    /\ pc = "main"
    /\ chat = "not_run"
    /\ exit_code = -1
    /\ prompt_template = <<>>
    /\ memory = <<>>
    /\ console = <<>>
    /\ user_input = <<>>
    /\ processed_input = <<>>
    /\ calls = <<>>
    /\ event = [at |-> "none", kind |-> "none"]
    /\ lines_read = 0

\* main() up to the connection probe in __init__
Start ==
    /\ pc = "main"
    /\ console' = console \o <<Out("starting", <<>>), Out("connecting", <<>>)>>
    /\ pc' = "probe"
    /\ UNCHANGED <<chat, exit_code, prompt_template, memory, user_input,
                   processed_input, calls, event, lines_read>>

\* The probe answers: the rest of __init__, then chat() up to input()
ProbeOk ==
    /\ pc = "probe"
    /\ event' = [at |-> "probe", kind |-> "reply"]
    /\ console' = console \o <<Out("connected", <<>>), Out("startup_panel", <<>>)>>
    /\ memory' = <<>>
    /\ prompt_template' = PromptText(AgentName)
    /\ chat' = "running"
    /\ pc' = "input"
    /\ UNCHANGED <<exit_code, user_input, processed_input, calls, lines_read>>

\* __init__ whose except clause lacks the `raise`: construction goes on and
\* main() runs chat()
ProbeFailSwallowed(e) ==
    /\ pc = "probe"
    /\ event' = [at |-> "probe", kind |-> "Exception"]
    /\ console' = console \o <<Out("connect_error", <<>>), Out("connect_hint", <<>>),
                               Out("startup_panel", <<>>)>>
    /\ memory' = <<>>
    /\ prompt_template' = PromptText(AgentName)
    /\ chat' = "running"
    /\ pc' = "input"
    /\ UNCHANGED <<exit_code, user_input, processed_input, calls, lines_read>>

\* The probe raises e: __init__ prints and re-raises, main() handles it
ProbeFail(e) ==
    /\ pc = "probe"
    /\ event' = [at |-> "probe", kind |-> "Exception"]
    /\ LET r      == Render(<<Open("red"), Txt>> \o e.msg \o <<Close("red")>>)
           con    == IF r = NoExc
                     THEN console \o <<Out("connect_error", <<>>), Out("connect_hint", <<>>)>>
                     ELSE console
           raised == IF r = NoExc THEN e ELSE r
           m      == MainExcept(con, raised)
       IN  /\ console' = m.console
           /\ exit_code' = m.exit_code
    /\ pc' = "exited"
    /\ UNCHANGED <<chat, prompt_template, memory, user_input, processed_input,
                   calls, lines_read>>

\* the exit branch with `continue` in place of `break`
ReadExitContinue(line) ==
    /\ pc = "input"
    /\ lines_read < MaxLines
    /\ IsExitCommand(line)
    /\ event' = [at |-> "input", kind |-> "line"]
    /\ user_input' = line
    /\ lines_read' = lines_read + 1
    /\ console' = Append(console, Out("goodbye_panel", <<>>))
    /\ pc' = "input"
    /\ UNCHANGED <<chat, exit_code, prompt_template, memory, processed_input, calls>>

\* input() returns an exit command: farewell, break, main() returns
ReadExit(line) ==
    /\ pc = "input"
    /\ lines_read < MaxLines
    /\ IsExitCommand(line)
    /\ event' = [at |-> "input", kind |-> "line"]
    /\ user_input' = line
    /\ lines_read' = lines_read + 1
    /\ console' = Append(console, Out("goodbye_panel", <<>>))
    /\ chat' = "break"
    /\ exit_code' = 0
    /\ pc' = "exited"
    /\ UNCHANGED <<prompt_template, memory, processed_input, calls>>

\* input() returns a line perceive() empties: notice, continue
ReadEmpty(line) ==
    /\ pc = "input"
    /\ lines_read < MaxLines
    /\ ~IsExitCommand(line)
    /\ perceive(line) = <<>>
    /\ event' = [at |-> "input", kind |-> "line"]
    /\ user_input' = line
    /\ processed_input' = perceive(line)
    /\ lines_read' = lines_read + 1
    /\ console' = Append(console, Out("empty_notice", <<>>))
    /\ pc' = "input"
    /\ UNCHANGED <<chat, exit_code, prompt_template, memory, calls>>

\* a think() that records the user input itself before it calls predict
ReadAcceptedRecordsFirst(line) ==
    /\ pc = "input"
    /\ lines_read < MaxLines
    /\ ~IsExitCommand(line)
    /\ perceive(line) # <<>>
    /\ event' = [at |-> "input", kind |-> "line"]
    /\ user_input' = line
    /\ processed_input' = perceive(line)
    /\ lines_read' = lines_read + 1
    /\ console' = Append(console, Out("thinking", <<>>))
    /\ memory' = Append(memory, [role |-> "user", content |-> perceive(line)])
    /\ calls' = Append(calls, [input   |-> perceive(line),
                               system  |-> prompt_template,
                               history |-> memory',
                               outcome |-> "pending",
                               reply   |-> <<>>])
    /\ pc' = "predict"
    /\ UNCHANGED <<chat, exit_code, prompt_template>>

\* input() returns any other line: think() calls predict, which reads the
\* memory and waits for the model
ReadAccepted(line) ==
    /\ pc = "input"
    /\ lines_read < MaxLines
    /\ ~IsExitCommand(line)
    /\ perceive(line) # <<>>
    /\ event' = [at |-> "input", kind |-> "line"]
    /\ user_input' = line
    /\ processed_input' = perceive(line)
    /\ lines_read' = lines_read + 1
    /\ console' = Append(console, Out("thinking", <<>>))
    /\ calls' = Append(calls, [input   |-> perceive(line),
                               system  |-> prompt_template,
                               history |-> memory,
                               outcome |-> "pending",
                               reply   |-> <<>>])
    /\ pc' = "predict"
    /\ UNCHANGED <<chat, exit_code, prompt_template, memory>>

\* input() raises e (end of input, or the interrupt signal)
InputRaises(e) ==
    /\ pc = "input"
    /\ event' = [at |-> "input", kind |-> e.type]
    /\ LET l == LeaveLoop(console, e)
       IN  /\ console' = l.console
           /\ chat' = l.chat
           /\ exit_code' = l.exit_code
    /\ pc' = "exited"
    /\ UNCHANGED <<prompt_template, memory, user_input, processed_input,
                   calls, lines_read>>

ReadEOF == InputRaises(EOFError)

InterruptInput == InputRaises(KeyboardInterrupt)

\* The model replies: predict saves the exchange, think() strips the reply,
\* act() shows it, and the loop is back at input()
PredictOk(reply) ==
    /\ pc = "predict"
    /\ event' = [at |-> "predict", kind |-> "reply"]
    /\ memory' = SaveContext(memory, processed_input, reply)
    /\ calls' = [calls EXCEPT ![Len(calls)].outcome = "ok",
                              ![Len(calls)].reply = reply]
    /\ console' = Append(console, Out("act", Strip(reply)))
    /\ pc' = "input"
    /\ UNCHANGED <<chat, exit_code, prompt_template, user_input,
                   processed_input, lines_read>>

\* predict raises e: think()'s except clause, then either act() and the
\* next iteration, or the handlers around the loop
PredictRaises(e, outcome) ==
    /\ pc = "predict"
    /\ event' = [at |-> "predict", kind |-> e.type]
    /\ calls' = [calls EXCEPT ![Len(calls)].outcome = outcome]
    /\ LET t == ThinkExcept(console, e)
       IN  IF t.exc = NoExc
           THEN /\ console' = Append(t.console, Out("act", t.response))
                /\ pc' = "input"
                /\ UNCHANGED <<chat, exit_code>>
           ELSE LET l == LeaveLoop(t.console, t.exc)
                IN  /\ console' = l.console
                    /\ chat' = l.chat
                    /\ exit_code' = l.exit_code
                    /\ pc' = "exited"
    /\ UNCHANGED <<prompt_template, memory, user_input, processed_input, lines_read>>

PredictFail(e) == PredictRaises(e, "error")

InterruptPredict == PredictRaises(KeyboardInterrupt, "interrupt")

Next ==
    \/ Start
    \/ ProbeOk
    \/ \E e \in BackendErrors : ProbeFail(e)
    \/ \E line \in InputLines : ReadExit(line)
    \/ \E line \in InputLines : ReadEmpty(line)
    \/ \E line \in InputLines : ReadAccepted(line)
    \/ ReadEOF
    \/ InterruptInput
    \/ \E reply \in Replies(processed_input) : PredictOk(reply)
    \/ \E e \in BackendErrors : PredictFail(e)
    \/ InterruptPredict

Spec == Init /\ [][Next]_vars

----------------------------------------------------------------------------
(* Properties *)

\* the spec's test for a line the loop should pass to the model:
\* non-empty after trimming and, trimmed and case-folded, no exit keyword
IsExitLine(line) == Lower(Strip(line)) \in ExitKeywords
IsBlankLine(line) == Strip(line) = <<>>

LineRead == lines_read' = lines_read + 1
GatewayInvoked == pc # "predict" /\ pc' = "predict"
GatewayReplied == pc = "predict" /\ event'.kind = "reply"
GatewayFailed == pc = "predict" /\ event'.kind = "Exception"
Interrupted == pc \in {"input", "predict"} /\ event'.kind = "KeyboardInterrupt"

Last(s) == s[Len(s)]

FallbackPanels == {i \in 1..Len(console) : console[i] = Out("act", Fallback)}
EmptyNotices == {i \in 1..Len(console) : console[i].site = "empty_notice"}

\* the memory is a sequence of user/assistant pairs
Paired(mem) ==
    /\ Len(mem) % 2 = 0
    /\ \A i \in 1..Len(mem) :
          mem[i].role = (IF i % 2 = 1 THEN "user" ELSE "assistant")

C2_Claim ==
    [][ GatewayFailed =>
           /\ memory' = memory
           /\ Last(console') = Out("act", Fallback)
           /\ pc' = "input"
           /\ chat' = "running" ]_vars

\* C3: when every gateway call so far has failed, N of them, the loop has
\* rendered N fallback replies and is awaiting input, not stopped.
C3_Claim ==
    (Len(calls) >= 1 /\ \A i \in 1..Len(calls) : calls[i].outcome = "error")
        => /\ pc = "input"
           /\ chat = "running"
           /\ Cardinality(FallbackPanels) = Len(calls)

\* C4: a line that is empty or whitespace-only leaves the Turn Store
\* unchanged, makes no gateway call and returns the loop to awaiting input.
C4_BlankLine ==
    [][ (LineRead /\ IsBlankLine(user_input')) =>
           /\ memory' = memory
           /\ prompt_template' = prompt_template
           /\ calls' = calls
           /\ pc' = "input"
           /\ chat' = "running" ]_vars

\* two blank lines in a row were read, the second whitespace-only
C4_Witness ==
    /\ lines_read = 2
    /\ Cardinality(EmptyNotices) = 2
    /\ user_input = <<" ", " ">>
    /\ pc = "input"
    /\ calls = <<>>

\* C5: a line whose trimmed, case-folded text is an exit keyword stops the
\* loop without appending a Turn and without a gateway call.
C5_Claim ==
    [][ (LineRead /\ IsExitLine(user_input')) =>
           /\ chat' = "break"
           /\ pc' = "exited"
           /\ memory' = memory
           /\ calls' = calls ]_vars

\* C6: once the agent is constructed, the Turn Store holds exactly one
\* system turn, at its first index, with the content seeded at construction.
C6_SystemTurn ==
    chat # "not_run" =>
        /\ TurnStore[1] = Message("system", PromptText(AgentName))
        /\ \A i \in 2..Len(TurnStore) : TurnStore[i].role # "system"

\* the loop has been through a successful and a failed call
C6_Witness ==
    /\ Len(memory) >= 2
    /\ \E i \in 1..Len(calls) : calls[i].outcome = "error"
    /\ chat = "running"

\* C7: reading a line makes exactly one gateway call when the line is
\* non-empty and no exit input, none otherwise; no other step makes one.
C7_Claim ==
    [][ /\ LineRead =>
              Len(calls') = Len(calls) +
                  (IF ~IsBlankLine(user_input') /\ ~IsExitLine(user_input') THEN 1 ELSE 0)
        /\ ~LineRead => Len(calls') = Len(calls) ]_vars

\* C8: an interrupt while the loop waits for input or for the gateway stops
\* the loop with the farewell, is not handled as an error, and leaves the
\* memory as it was, holding only complete exchanges.
C8_Interrupt ==
    [][ Interrupted =>
           /\ chat' = "interrupt"
           /\ pc' = "exited"
           /\ exit_code' = 0
           /\ console' = Append(console, Out("interrupted", <<>>))
           /\ memory' = memory
           /\ Paired(memory') ]_vars

\* the interrupt arrived during a gateway call, after an earlier exchange
C8_Witness ==
    /\ chat = "interrupt"
    /\ event = [at |-> "predict", kind |-> "KeyboardInterrupt"]
    /\ Last(calls).outcome = "interrupt"
    /\ Len(memory) >= 2

\* C9: once entered, the loop stops only by an exit keyword or an interrupt;
\* an error raised inside an iteration leaves the loop awaiting input.
C9_Claim ==
    /\ chat \in {"not_run", "running", "break", "interrupt"}
    /\ (event.kind \in {"Exception", "EOFError"} /\ event.at # "probe") => pc = "input"

\* C10: when the connection probe fails, the process ends without entering
\* the loop: chat() is not run, no line is read, no Turn is appended.
C10_ProbeFailure ==
    (event.at = "probe" /\ event.kind = "Exception") =>
        /\ pc = "exited"
        /\ chat = "not_run"
        /\ lines_read = 0
        /\ user_input = <<>>
        /\ memory = <<>>
        /\ prompt_template = <<>>
        /\ calls = <<>>

\* the probe has failed and the process has ended
C10_Witness ==
    /\ event = [at |-> "probe", kind |-> "Exception"]
    /\ pc = "exited"
    /\ Last(console).site = "failed_hint"

ProbeFailed == event.at = "probe" /\ event.kind = "Exception"

\* C11: the process exits with 0 when the run ended by an exit keyword or
\* an interrupt, and with a non-zero code when it ended because the
\* connection probe failed at construction.
C11_Claim ==
    pc = "exited" =>
        /\ chat \in {"break", "interrupt"} => exit_code = 0
        /\ ProbeFailed => exit_code # 0

\* the calls whose input, trimmed and case-folded, is no exit keyword
AcceptedCalls == SelectSeq(calls, LAMBDA c : ~IsExitLine(c.input))

\* the Turns of the exchanges cs, in order: user input, assistant reply
RECURSIVE Exchanges(_)
Exchanges(cs) ==
    IF cs = <<>> THEN <<>>
    ELSE <<Message("user", Head(cs).input), Message("assistant", Head(cs).reply)>>
             \o Exchanges(Tail(cs))

\* C12: when every gateway call succeeded and the run ended with an exit
\* keyword, the Turn Store is the system turn followed by user:u, assistant:r
\* for each accepted input in order, with no Turn for an exit keyword.
C12_Claim ==
    (/\ pc = "exited"
     /\ chat = "break"
     /\ \A i \in 1..Len(calls) : calls[i].outcome = "ok")
        => TurnStore = <<Message("system", PromptText(AgentName))>>
                           \o Exchanges(AcceptedCalls)

IsPrefix(s, t) == Len(s) <= Len(t) /\ SubSeq(t, 1, Len(s)) = s

\* C13: the Turn Store is append-only: once the agent is constructed, the
\* store before a step is a prefix of the store after it.
C13_AppendOnly ==
    [][ chat # "not_run" => IsPrefix(TurnStore, TurnStore') ]_vars

\* the store has grown twice
C13_Witness ==
    /\ Len(TurnStore) >= 5
    /\ pc = "input"

\* a keyword occurs in the trimmed line, which is more than the keyword
ContainsExitKeyword(line) ==
    LET t == Lower(Strip(line))
    IN  /\ t \notin ExitKeywords
        /\ \E i, j \in 1..Len(t) : SubSeq(t, i, j) \in ExitKeywords

\* C14: a line whose trimmed text holds an exit keyword together with other
\* text does not stop the loop; it is passed to the gateway as a user input.
C14_WholeLine ==
    [][ (LineRead /\ ContainsExitKeyword(user_input')) =>
           /\ chat' = "running"
           /\ pc' = "predict"
           /\ Len(calls') = Len(calls) + 1
           /\ Last(calls').input = Strip(user_input') ]_vars

\* "quit now" was read, answered and recorded as a user Turn
C14_Witness ==
    /\ pc = "input"
    /\ user_input = <<"q","u","i","t"," ","n","o","w">>
    /\ Len(memory) >= 2
    /\ memory[Len(memory) - 1] = Message("user", user_input)

\* the Turns of the calls cs as spec 4.3 records them: the user input of
\* every call, and the reply of the calls that succeeded
RECURSIVE UserTurnsAndReplies(_)
UserTurnsAndReplies(cs) ==
    IF cs = <<>> THEN <<>>
    ELSE <<Message("user", Head(cs).input)>>
             \o (IF Head(cs).outcome = "ok"
                 THEN <<Message("assistant", Head(cs).reply)>> ELSE <<>>)
             \o UserTurnsAndReplies(Tail(cs))

SucceededCalls(cs) == SelectSeq(cs, LAMBDA c : c.outcome = "ok")

Stopped ==
    \/ chat \in {"break", "interrupt"}
    \/ \E i \in 1..Len(console) : console[i].site \in {"goodbye_panel", "interrupted"}

\* C16: once the loop has stopped, the process has left it for good: no
\* line is read, no gateway call is made, the Turn Store does not change.
C16_Terminal ==
    [][ Stopped =>
           /\ pc = "exited"
           /\ pc' = "exited"
           /\ UNCHANGED <<lines_read, user_input, calls, memory, prompt_template>> ]_vars

\* the loop was stopped by an exit keyword after an exchange, with lines
\* still left to read
C16_Witness ==
    /\ pc = "exited"
    /\ chat = "break"
    /\ Len(memory) >= 2
    /\ lines_read < MaxLines

\* C17: whenever the loop awaits input, and once it has stopped, the memory
\* is a sequence of user/assistant pairs, one pair for each call that
\* succeeded and none for a call that failed or was interrupted.
C17_Paired ==
    pc \in {"input", "exited"} =>
        /\ Paired(memory)
        /\ Len(memory) = 2 * Len(SucceededCalls(calls))

\* the loop awaits input after a call that failed, with an earlier exchange
\* in the memory
C17_Witness ==
    /\ pc = "input"
    /\ calls # <<>>
    /\ Last(calls).outcome = "error"
    /\ Len(memory) >= 2

====
